---- MODULE Spec2Model ----
(***************************************************************************)
(* Thumbnail Separator: the application state controller (App.tsx), the    *)
(* file intake widget (Dropzone.tsx) and the response normalization of the *)
(* remote analysis client (geminiService.ts).                              *)
(*                                                                         *)
(* Numbers on the unit scale are kept as fractions [num, den]; confidence  *)
(* values are thousandths (900 is 0.9).  A nullable value is <<>> (null /  *)
(* undefined) or <<v>>.                                                    *)
(***************************************************************************)
EXTENDS Integers, Sequences, FiniteSets, Bags, TLC

\* ---------------------------------------------------------------- bounds
MaxDrops == 2      \* files handed to the intake widget in one run
MaxTime == 2       \* largest value of the millisecond clock (Date.now())
MaxLayers == 3     \* longest layers array of a response (normalization runs)

\* ------------------------------------------------------- nullable values
Null == <<>>
Some(x) == <<x>>
Val(o) == o[1]

\* ------------------------------------------------------------- types.ts
PERSON == "PERSON"
BACKGROUND == "BACKGROUND"
TEXT == "TEXT"

Statuses == {"IDLE", "ANALYZING", "SUCCESS", "ERROR"}

\* ------------------------------------------------- files and data URLs
\* A file has a MIME type and content; FileReader.readAsDataURL gives
\* "data:<type>;base64,<content>", kept as the pair <<type, content>>.
Files ==
  { [type |-> "image/png", data |-> "A"],
    [type |-> "image/jpeg", data |-> "B"],
    [type |-> "text/plain", data |-> "C"] }

StartsWithImage(t) == t \in {"image/png", "image/jpeg"}

readAsDataURL(f) == <<f.type, f.data>>

\* base64.split(',')[1]
base64Data(url) == url[2]

\* ------------------------------------------------ remote model responses
Frac(n, d) == [num |-> n, den |-> d]

RawBox == [ymin |-> 100, xmin |-> 200, ymax |-> 600, xmax |-> 900]

RawLayer(ty, z, c) ==
  [label |-> "el", type |-> ty, subtype |-> Null, confidence |-> c,
   box |-> RawBox, zIndex |-> z, dominantColor |-> "#ff0000"]

RawAnalysis ==
  [ruleOfThirdsScore |-> 70, visualBalanceScore |-> 60,
   dominantColors |-> <<"#ff0000">>, brightnessMap |-> Null,
   contrastLevel |-> Some("High"), suggestions |-> <<"s">>,
   eyeContact |-> TRUE, weightCenterX |-> Some(40), weightCenterY |-> Null]

\* -------------------------------------- geminiService.ts: normalization
\* a || b on numbers and on strings
OrNum(o, d) == IF o # Null /\ Val(o) # 0 THEN Val(o) ELSE d
OrStr(o, d) == IF o # Null /\ Val(o) # "" THEN Val(o) ELSE d

\* `layer-${index}-${Date.now()}`, index counted from 0
LayerId(index, t) == <<"layer", index, t>>
DefaultBgId == <<"layer-bg-default">>

MapLayer(layer, index, t) ==
  [id |-> LayerId(index, t),
   label |-> layer.label,
   type |-> layer.type,
   subtype |-> layer.subtype,
   confidence |-> OrNum(layer.confidence, 900),
   box |-> [ymin |-> Frac(layer.box.ymin, 1000),
            xmin |-> Frac(layer.box.xmin, 1000),
            ymax |-> Frac(layer.box.ymax, 1000),
            xmax |-> Frac(layer.box.xmax, 1000)],
   zIndex |-> layer.zIndex,
   dominantColor |-> layer.dominantColor,
   visible |-> TRUE]

MapLayers(raw, t) == [i \in 1..Len(raw) |-> MapLayer(raw[i], i - 1, t)]

hasBackground(layers) == \E i \in 1..Len(layers) : layers[i].type = BACKGROUND

DefaultBackground ==
  [id |-> DefaultBgId,
   label |-> "Background Environment",
   type |-> BACKGROUND,
   subtype |-> Null,
   confidence |-> 500,
   box |-> [ymin |-> Frac(0, 1), xmin |-> Frac(0, 1),
            ymax |-> Frac(1, 1), xmax |-> Frac(1, 1)],
   zIndex |-> 0,
   dominantColor |-> "#000000",
   visible |-> TRUE]

\* Variant: the synthetic layer is appended (push) instead of prepended.
EnsureBackground_push(layers) ==
  IF hasBackground(layers) THEN layers ELSE layers \o <<DefaultBackground>>

\* Variant: the synthetic layer is added whatever the response holds.
EnsureBackground_always(layers) == <<DefaultBackground>> \o layers

\* layers.unshift(...) when no layer is a background
EnsureBackground(layers) ==
  IF hasBackground(layers) THEN layers ELSE <<DefaultBackground>> \o layers

\* Variant: an unstable sort, a layer moves ahead of layers of equal order.
RECURSIVE InsertByZ_unstable(_, _)
InsertByZ_unstable(sorted, l) ==
  IF sorted = <<>> THEN <<l>>
  ELSE IF sorted[Len(sorted)].zIndex - l.zIndex >= 0
       THEN Append(InsertByZ_unstable(SubSeq(sorted, 1, Len(sorted) - 1), l),
                   sorted[Len(sorted)])
       ELSE Append(sorted, l)

\* Array.prototype.sort with (a, b) => a.zIndex - b.zIndex: a stable sort
RECURSIVE InsertByZ(_, _)
InsertByZ(sorted, l) ==
  IF sorted = <<>> THEN <<l>>
  ELSE IF sorted[Len(sorted)].zIndex - l.zIndex > 0
       THEN Append(InsertByZ(SubSeq(sorted, 1, Len(sorted) - 1), l),
                   sorted[Len(sorted)])
       ELSE Append(sorted, l)

RECURSIVE SortByZ(_)
SortByZ(layers) ==
  IF layers = <<>> THEN <<>>
  ELSE InsertByZ(SortByZ(SubSeq(layers, 1, Len(layers) - 1)),
                 layers[Len(layers)])

\* Variant: the y coordinate falls back to the x coordinate of the response.
NormalizeAnalysis_coupled(a) ==
  [ruleOfThirdsScore |-> a.ruleOfThirdsScore,
   visualBalanceScore |-> a.visualBalanceScore,
   dominantColors |-> a.dominantColors,
   brightnessMap |-> OrStr(a.brightnessMap, "Balanced"),
   contrastLevel |-> OrStr(a.contrastLevel, "Medium"),
   suggestions |-> a.suggestions,
   eyeContact |-> a.eyeContact,
   visualWeightCenter |-> [x |-> OrNum(a.weightCenterX, 50),
                           y |-> OrNum(a.weightCenterY, OrNum(a.weightCenterX, 50))]]

NormalizeAnalysis(a) ==
  [ruleOfThirdsScore |-> a.ruleOfThirdsScore,
   visualBalanceScore |-> a.visualBalanceScore,
   dominantColors |-> a.dominantColors,
   brightnessMap |-> OrStr(a.brightnessMap, "Balanced"),
   contrastLevel |-> OrStr(a.contrastLevel, "Medium"),
   suggestions |-> a.suggestions,
   eyeContact |-> a.eyeContact,
   visualWeightCenter |-> [x |-> OrNum(a.weightCenterX, 50),
                           y |-> OrNum(a.weightCenterY, 50)]]

\* The value analyzeThumbnail resolves to for the parsed response rawData,
\* with Date.now() = t.
analyzeThumbnail(rawData, t) ==
  [layers |-> SortByZ(EnsureBackground(MapLayers(rawData.layers, t))),
   analysis |-> NormalizeAnalysis(rawData.analysis)]

\* Responses the remote model gives in controller runs.
Responses ==
  { [layers |-> <<RawLayer(PERSON, 2, Some(800)), RawLayer(BACKGROUND, 1, Null)>>,
     analysis |-> RawAnalysis],
    [layers |-> <<RawLayer(TEXT, -1, Null)>>, analysis |-> RawAnalysis] }

\* Messages of the errors thrown inside analyzeThumbnail after the request
\* was sent (an empty response text; an error that carries no text).
MissingKeyMessage == "API Key is missing. Please set the API_KEY environment variable."
RemoteFailures == {"No response from AI", ""}

\* Variant: the key check is absent.
MissingKey_never(key) == FALSE

\* if (!process.env.API_KEY) throw ...
MissingKey(key) == key = Null \/ Val(key) = ""

\* Normalization runs: every layers array up to MaxLayers over these layers.
NormLayers ==
  { RawLayer(ty, z, c) : ty \in {PERSON, BACKGROUND}, z \in {-1, 0, 1, 2},
                         c \in {Null, Some(800)} }

\* Analyses with each optional field missing or supplied (0 included).
NormAnalyses ==
  { [RawAnalysis EXCEPT !.brightnessMap = b, !.contrastLevel = c,
                        !.weightCenterX = x, !.weightCenterY = y] :
      b \in {Null, Some("Dark")}, c \in {Null, Some("Low")},
      x \in {Null, Some(0), Some(40)}, y \in {Null, Some(0), Some(100)} }

\* Layers with the confidence missing or supplied (0 and 1 included).
ConfLayers ==
  { RawLayer(PERSON, 1, c) : c \in {Null, Some(0), Some(800), Some(1000)} }

NormResponses ==
  { [layers |-> ls, analysis |-> RawAnalysis] :
      ls \in UNION { [1..k -> NormLayers] : k \in 0..MaxLayers } }
  \cup
  { [layers |-> ls, analysis |-> a] :
      ls \in UNION { [1..k -> ConfLayers] : k \in 0..1 }, a \in NormAnalyses }

\* ------------------------------------------------------------ the state
VARIABLES
  state,            \* App: AppState {status, imageSrc, result, error}
  activeTab,        \* App: 'layers' | 'analysis'
  selectedLayerId,  \* App: id of the inspected layer or null
  originalImage,    \* App: the loaded HTMLImageElement or null
  API_KEY,          \* process.env.API_KEY
  readers,          \* Dropzone: FileReaders started and not yet loaded (bag)
  calls,            \* analyzeThumbnail promises not yet settled (bag)
  imgLoading,       \* Image objects created whose onload has not fired
  now,              \* Date.now()
  drops,            \* files accepted by processFile so far
  requests,         \* generateContent requests sent so far
  analysed,         \* the data URL whose analysis produced state.result
  rawOf,            \* the response state.result was normalized from
  normIn,           \* normalization runs: the response
  normOut,          \* normalization runs: the result
  canvas2d,         \* whether canvas.getContext("2d") gives a context
  thumbnails,       \* LayerList: Record<layer id, data URL>
  download          \* the file save started by the step, or null

vars == <<state, activeTab, selectedLayerId, originalImage, API_KEY, readers,
          calls, imgLoading, now, drops, requests, analysed, rawOf,
          normIn, normOut, canvas2d, thumbnails, download>>

viewVars == <<canvas2d, thumbnails, download>>

ctrlVars == <<state, activeTab, selectedLayerId, originalImage, API_KEY,
              readers, calls, imgLoading, now, drops, requests, analysed,
              rawOf>>

InitialState == [status |-> "IDLE", imageSrc |-> Null, result |-> Null, error |-> Null]

InitCtrl ==
  /\ state = InitialState
  /\ activeTab = "layers"
  /\ selectedLayerId = Null
  /\ originalImage = Null
  /\ readers = EmptyBag
  /\ calls = EmptyBag
  /\ imgLoading = {}
  /\ now = 0
  /\ drops = 0
  /\ requests = 0
  /\ analysed = Null
  /\ rawOf = Null
  /\ thumbnails = [id \in {} |-> Null]
  /\ download = Null

Init ==
  /\ InitCtrl
  /\ canvas2d \in BOOLEAN
  /\ API_KEY \in {Null, Some("key")}
  /\ normIn = Null
  /\ normOut = Null

One(x) == SetToBag({x})

\* A promise that is already rejected: its continuation is a microtask and
\* runs before any further event.
MicrotaskPending == \E c \in BagToSet(calls) : ~c.sent

\* The editor view of App (LayerCanvas, toolbar, sidebar) is rendered.
EditorShown ==
  state.status = "SUCCESS" /\ state.result # Null /\ state.imageSrc # Null

LayerIds(result) == {result.layers[i].id : i \in 1..Len(result.layers)}

\* LayerCanvas: layers.find(l => l.id === selectedLayerId)
selectedLayer ==
  IF state.result = Null \/ selectedLayerId = Null THEN Null
  ELSE LET ls == Val(state.result).layers
           hit == {i \in 1..Len(ls) : ls[i].id = Val(selectedLayerId)}
       IN IF hit = {} THEN Null
          ELSE Some(ls[CHOOSE i \in hit : \A j \in hit : i <= j])

\* --------------------------------------------- imageProcessing.ts, views
\* A data URL is a tuple, the empty string is <<>>.
EmptyUrl == <<>>

\* cropLayer: "" without a drawing context, else the PNG of the box of the image
cropLayer(imageElement, box) ==
  IF canvas2d THEN <<"data:image/png", imageElement, box>> ELSE EmptyUrl

\* label.replace(/\s+/g, '_'); the labels of the model hold one blank at most
ReplaceWhitespace(label) ==
  IF label = "Background Environment" THEN "Background_Environment" ELSE label

\* LayerList is rendered: editor shown and the Layers tab active
ListMounted(st, tab) ==
  st.status = "SUCCESS" /\ st.result # Null /\ st.imageSrc # Null /\ tab = "layers"

EmptyThumbs == [id \in {} |-> Null]

\* thumbnails[id], undefined (falsy) when the key is absent
ThumbOf(thumbs, id) == IF id \in DOMAIN thumbs THEN thumbs[id] ELSE EmptyUrl

\* Variant: the loop stops one layer early.
RunEffect_skipLast(thumbs, layers, img) ==
  IF img = Null \/ Len(layers) = 0 THEN thumbs
  ELSE LET fresh == {i \in 1..(Len(layers) - 1) : ThumbOf(thumbs, layers[i].id) = EmptyUrl}
       IN [id \in DOMAIN thumbs \cup {layers[i].id : i \in fresh} |->
             IF \E i \in fresh : layers[i].id = id
             THEN cropLayer(Val(img), layers[CHOOSE i \in fresh : layers[i].id = id].box)
             ELSE thumbs[id]]

\* LayerList useEffect body: crop every layer that has no thumbnail yet and
\* merge the crops into the cache
RunEffect(thumbs, layers, img) ==
  IF img = Null \/ Len(layers) = 0 THEN thumbs
  ELSE LET fresh == {i \in 1..Len(layers) : ThumbOf(thumbs, layers[i].id) = EmptyUrl}
       IN [id \in DOMAIN thumbs \cup {layers[i].id : i \in fresh} |->
             IF \E i \in fresh : layers[i].id = id
             THEN cropLayer(Val(img), layers[CHOOSE i \in fresh : layers[i].id = id].box)
             ELSE thumbs[id]]

\* The cache after the render that follows a step: gone when LayerList is
\* not rendered, the effect run on mount and when layers or originalImage
\* was replaced (deps), else as it was.
NextThumbnails(deps) ==
  IF ~ListMounted(state', activeTab') THEN EmptyThumbs
  ELSE IF ~ListMounted(state, activeTab)
       THEN RunEffect(EmptyThumbs, Val(state'.result).layers, originalImage')
       ELSE IF deps
            THEN RunEffect(thumbnails, Val(state'.result).layers, originalImage')
            ELSE thumbnails

\* what a step that saves no file does to the views
View(deps) ==
  /\ canvas2d' = canvas2d
  /\ download' = Null
  /\ thumbnails' = NextThumbnails(deps)

\* ------------------------------------------------------------- Dropzone
\* handleDrop / handleChange -> processFile: the widget exists in IDLE only.
processFile(file) ==
  /\ state.status = "IDLE"
  /\ ~MicrotaskPending
  /\ StartsWithImage(file.type)
  /\ drops < MaxDrops
  /\ readers' = readers (+) One(readAsDataURL(file))
  /\ drops' = drops + 1
  /\ UNCHANGED <<state, activeTab, selectedLayerId, originalImage, API_KEY,
                 calls, imgLoading, now, requests, analysed, rawOf,
                 normIn, normOut>>
  /\ View(FALSE)

\* ------------------------------------------------------------------ App
\* reader.onload -> onImageSelected -> handleImageSelected up to the await:
\* the state update, the Image object, and the call of analyzeThumbnail,
\* which throws before sending when the key is missing.
handleImageSelected(base64) ==
  /\ BagIn(base64, readers)
  /\ ~MicrotaskPending
  /\ readers' = readers (-) One(base64)
  /\ state' = [state EXCEPT !.status = "ANALYZING",
                            !.imageSrc = Some(base64),
                            !.error = Null]
  /\ imgLoading' = imgLoading \cup {base64}
  /\ IF MissingKey(API_KEY)
     THEN /\ calls' = calls (+) One([image |-> base64, data |-> base64Data(base64), sent |-> FALSE, at |-> now])
          /\ requests' = requests
     ELSE /\ calls' = calls (+) One([image |-> base64, data |-> base64Data(base64), sent |-> TRUE, at |-> now])
          /\ requests' = requests + 1
  /\ UNCHANGED <<activeTab, selectedLayerId, originalImage, API_KEY, now,
                 drops, analysed, rawOf, normIn, normOut>>
  /\ View(FALSE)

\* the await resolves: setState(prev => ({...prev, status: 'SUCCESS', result})).
\* The round trip takes time (t > c.at); only which ids carry equal times
\* matters, so the clock moves one step at most.
AnalysisResolved(c, rawData, t) ==
  /\ BagIn(c, calls)
  /\ c.sent
  /\ ~MicrotaskPending
  /\ t >= now
  /\ t > c.at
  /\ t <= now + 1
  /\ now' = t
  /\ calls' = calls (-) One(c)
  /\ state' = [state EXCEPT !.status = "SUCCESS",
                            !.result = Some(analyzeThumbnail(rawData, t))]
  /\ analysed' = Some(c.image)
  /\ rawOf' = Some(rawData)
  /\ UNCHANGED <<activeTab, selectedLayerId, originalImage, API_KEY, readers,
                 imgLoading, drops, requests, normIn, normOut>>
  /\ View(TRUE)

\* the catch block: error: err.message || "Failed to analyze image"
CatchError(message) ==
  [state EXCEPT !.status = "ERROR",
                !.error = Some(OrStr(Some(message), "Failed to analyze image"))]

\* the await rejects after the request was sent
AnalysisRejected(c, message) ==
  /\ BagIn(c, calls)
  /\ c.sent
  /\ ~MicrotaskPending
  /\ calls' = calls (-) One(c)
  /\ state' = CatchError(message)
  /\ UNCHANGED <<activeTab, selectedLayerId, originalImage, API_KEY, readers,
                 imgLoading, now, drops, requests, analysed, rawOf,
                 normIn, normOut>>
  /\ View(FALSE)

\* the await rejects with the missing-key error
MissingKeyRejected(c) ==
  /\ BagIn(c, calls)
  /\ ~c.sent
  /\ calls' = calls (-) One(c)
  /\ state' = CatchError(MissingKeyMessage)
  /\ UNCHANGED <<activeTab, selectedLayerId, originalImage, API_KEY, readers,
                 imgLoading, now, drops, requests, analysed, rawOf,
                 normIn, normOut>>
  /\ View(FALSE)

\* img.onload = () => setOriginalImage(img)
ImageOnload(src) ==
  /\ src \in imgLoading
  /\ ~MicrotaskPending
  /\ imgLoading' = imgLoading \ {src}
  /\ originalImage' = Some(src)
  /\ UNCHANGED <<state, activeTab, selectedLayerId, API_KEY, readers, calls,
                 now, drops, requests, analysed, rawOf, normIn, normOut>>
  /\ View(TRUE)

\* Variant: the id comparison is absent, every layer is flipped.
ToggleLayers_all(layers, id) ==
  [i \in 1..Len(layers) |-> [layers[i] EXCEPT !.visible = ~layers[i].visible]]

\* state.result.layers.map(l => l.id === id ? {...l, visible: !l.visible} : l)
ToggleLayers(layers, id) ==
  [i \in 1..Len(layers) |->
     IF layers[i].id = id
     THEN [layers[i] EXCEPT !.visible = ~layers[i].visible]
     ELSE layers[i]]

\* the eye button of a LayerList row
handleToggleVisibility(id) ==
  /\ EditorShown
  /\ activeTab = "layers"
  /\ ~MicrotaskPending
  /\ id \in LayerIds(Val(state.result))
  /\ state' = [state EXCEPT !.result =
                 Some([Val(state.result) EXCEPT
                         !.layers = ToggleLayers(Val(state.result).layers, id)])]
  /\ UNCHANGED <<activeTab, selectedLayerId, originalImage, API_KEY, readers,
                 calls, imgLoading, now, drops, requests, analysed, rawOf,
                 normIn, normOut>>
  /\ View(TRUE)

\* onSelectLayer: a LayerList row, a visible overlay box of the full
\* composition view, or "Back to Composition" (null) of the isolated view.
setSelectedLayerId(v) ==
  /\ EditorShown
  /\ ~MicrotaskPending
  /\ \/ /\ v # Null
        /\ activeTab = "layers"
        /\ Val(v) \in LayerIds(Val(state.result))
     \/ /\ v # Null
        /\ selectedLayer = Null
        /\ \E i \in 1..Len(Val(state.result).layers) :
             /\ Val(state.result).layers[i].id = Val(v)
             /\ Val(state.result).layers[i].visible
     \/ /\ v = Null
        /\ selectedLayer # Null
  /\ selectedLayerId' = v
  /\ UNCHANGED <<state, activeTab, originalImage, API_KEY, readers, calls,
                 imgLoading, now, drops, requests, analysed, rawOf,
                 normIn, normOut>>
  /\ View(FALSE)

setActiveTab(tab) ==
  /\ EditorShown
  /\ ~MicrotaskPending
  /\ tab # activeTab
  /\ activeTab' = tab
  /\ UNCHANGED <<state, selectedLayerId, originalImage, API_KEY, readers,
                 calls, imgLoading, now, drops, requests, analysed, rawOf,
                 normIn, normOut>>
  /\ View(FALSE)

\* Variant: the button is shown whatever the status.
NewProject_anytime ==
  /\ ~MicrotaskPending
  /\ state' = [status |-> "IDLE", imageSrc |-> Null, result |-> Null, error |-> Null]
  /\ analysed' = Null
  /\ rawOf' = Null
  /\ UNCHANGED <<activeTab, selectedLayerId, originalImage, API_KEY, readers,
                 calls, imgLoading, now, drops, requests, normIn, normOut>>
  /\ View(FALSE)

\* "New Project", shown while status is SUCCESS
NewProject ==
  /\ state.status = "SUCCESS"
  /\ ~MicrotaskPending
  /\ state' = [status |-> "IDLE", imageSrc |-> Null, result |-> Null, error |-> Null]
  /\ analysed' = Null
  /\ rawOf' = Null
  /\ UNCHANGED <<activeTab, selectedLayerId, originalImage, API_KEY, readers,
                 calls, imgLoading, now, drops, requests, normIn, normOut>>
  /\ View(FALSE)

\* "Try Again", shown while status is ERROR
TryAgain ==
  /\ state.status = "ERROR"
  /\ ~MicrotaskPending
  /\ state' = [state EXCEPT !.status = "IDLE", !.error = Null]
  /\ UNCHANGED <<activeTab, selectedLayerId, originalImage, API_KEY, readers,
                 calls, imgLoading, now, drops, requests, analysed, rawOf,
                 normIn, normOut>>
  /\ View(FALSE)

\* ids of the layers on screen
ShownIds == IF state.result = Null THEN {} ELSE LayerIds(Val(state.result))

LayerOfId(id) ==
  LET ls == Val(state.result).layers
  IN ls[CHOOSE i \in 1..Len(ls) : ls[i].id = id]

\* downloadFile(dataUrl, filename); a file name is <<stem, suffix>>
downloadFile(dataUrl, filename) == Some([href |-> dataUrl, filename |-> filename])

\* LayerList: the download button of a row, nothing without a thumbnail
handleDownload(id) ==
  /\ ListMounted(state, activeTab)
  /\ ~MicrotaskPending
  /\ id \in ShownIds
  /\ ThumbOf(thumbnails, id) # EmptyUrl
  /\ download' = downloadFile(ThumbOf(thumbnails, id),
                              <<ReplaceWhitespace(LayerOfId(id).label), ".png">>)
  /\ UNCHANGED <<state, activeTab, selectedLayerId, originalImage, API_KEY,
                 readers, calls, imgLoading, now, drops, requests, analysed,
                 rawOf, normIn, normOut, canvas2d, thumbnails>>

\* LayerCanvas: "Download PNG" of the isolated view; imageRef is the hidden
\* <img> whose src is imageSrc
handleDownloadCrop ==
  /\ EditorShown
  /\ ~MicrotaskPending
  /\ selectedLayer # Null
  /\ download' = downloadFile(cropLayer(Val(state.imageSrc), Val(selectedLayer).box),
                              <<ReplaceWhitespace(Val(selectedLayer).label), "_crop.png">>)
  /\ UNCHANGED <<state, activeTab, selectedLayerId, originalImage, API_KEY,
                 readers, calls, imgLoading, now, drops, requests, analysed,
                 rawOf, normIn, normOut, canvas2d, thumbnails>>

\* Variant: the document is saved under another name.
ExportFile_renamed(result) ==
  downloadFile(<<"data:text/json", result>>, <<"thumbnail", ".json">>)

\* "data:text/json;charset=utf-8," + JSON.stringify(state.result), saved as
\* thumbnail_data.json
ExportFile(result) ==
  downloadFile(<<"data:text/json", result>>, <<"thumbnail_data", ".json">>)

\* "Export JSON" of the editor toolbar
handleExportJSON ==
  /\ EditorShown
  /\ ~MicrotaskPending
  /\ state.result # Null
  /\ download' = ExportFile(Val(state.result))
  /\ UNCHANGED <<state, activeTab, selectedLayerId, originalImage, API_KEY,
                 readers, calls, imgLoading, now, drops, requests, analysed,
                 rawOf, normIn, normOut, canvas2d, thumbnails>>

Next ==
  \/ \E f \in Files : processFile(f)
  \/ \E b \in BagToSet(readers) : handleImageSelected(b)
  \/ \E c \in BagToSet(calls), r \in Responses, t \in 0..MaxTime :
       AnalysisResolved(c, r, t)
  \/ \E c \in BagToSet(calls), m \in RemoteFailures : AnalysisRejected(c, m)
  \/ \E c \in BagToSet(calls) : MissingKeyRejected(c)
  \/ \E s \in imgLoading : ImageOnload(s)
  \/ \E id \in ShownIds : handleToggleVisibility(id)
  \/ \E id \in ShownIds : setSelectedLayerId(Some(id))
  \/ setSelectedLayerId(Null)
  \/ \E tab \in {"layers", "analysis"} : setActiveTab(tab)
  \/ NewProject
  \/ TryAgain
  \/ \E id \in ShownIds : handleDownload(id)
  \/ handleDownloadCrop
  \/ handleExportJSON

Spec == Init /\ [][Next]_vars

\* a pending analysis call settles
Settle ==
  \/ \E c \in BagToSet(calls) : MissingKeyRejected(c)
  \/ \E c \in BagToSet(calls), m \in RemoteFailures : AnalysisRejected(c, m)
  \/ \E c \in BagToSet(calls), r \in Responses, t \in 0..MaxTime :
       AnalysisResolved(c, r, t)

\* a created Image object finishes loading
ImageLoads == \E s \in imgLoading : ImageOnload(s)

\* Runs in which every remote call settles and every image loads.
SpecLive == Spec /\ WF_vars(Settle) /\ WF_vars(ImageLoads)

\* ------------------------------------------------- normalization runs
\* One run of the normalization of analyzeThumbnail on a response.
InitNorm ==
  /\ InitCtrl
  /\ API_KEY = Some("key")
  /\ canvas2d = TRUE
  /\ normIn \in {Some(r) : r \in NormResponses}
  /\ normOut = Null

Normalize(t) ==
  /\ normIn # Null
  /\ normOut = Null
  /\ normOut' = Some(analyzeThumbnail(Val(normIn), t))
  /\ UNCHANGED <<normIn, ctrlVars, viewVars>>

NextNorm == \E t \in 0..MaxTime : Normalize(t)

SpecNorm == InitNorm /\ [][NextNorm]_vars

\* ================================================================ claims

\* number of analysis requests sent and not yet answered
InFlight == BagCardinality([c \in {d \in BagToSet(calls) : d.sent} |-> calls[c]])

\* C1: every change of the status field is Idle -> Analyzing,
\* Analyzing -> Success, Analyzing -> Error, Error -> Idle or Success -> Idle.
C1_OnlyListedTransitions ==
  [][state'.status # state.status =>
       <<state.status, state'.status>> \in
         { <<"IDLE", "ANALYZING">>, <<"ANALYZING", "SUCCESS">>,
           <<"ANALYZING", "ERROR">>, <<"ERROR", "IDLE">>,
           <<"SUCCESS", "IDLE">> }]_vars

\* C2: at most one analysis request is in flight, and one is in flight only
\* while the status is Analyzing.
C2_SingleCallWhileAnalyzing ==
  /\ InFlight <= 1
  /\ InFlight > 0 => state.status = "ANALYZING"

\* C3: a held result was produced by analysing the source image that is
\* currently held.
C3_ResultOfHeldImage ==
  state.result # Null => (state.imageSrc # Null /\ analysed = state.imageSrc)

\* C4: Try Again from Error gives Idle with the source image and the result
\* both cleared.
C4_TryAgainClears ==
  [][(state.status = "ERROR" /\ TryAgain) =>
       (state'.status = "IDLE" /\ state'.imageSrc = Null /\ state'.result = Null)]_vars

\* C5: New Project gives Idle and discards the source image, the result, the
\* layer selection and every image derived from the discarded source.
C5_ResetDiscardsAll ==
  [][NewProject =>
       (/\ state'.status = "IDLE"
        /\ state'.imageSrc = Null
        /\ state'.result = Null
        /\ selectedLayerId' = Null
        /\ originalImage' = Null)]_vars

\* C6: a failed analysis call moves the controller from Analyzing to Error
\* with a non-empty message, the failure's own message when that is
\* non-empty; a request is sent only by an image submission.
C6_FailureToError ==
  [][/\ \A c \in BagToSet(calls), m \in RemoteFailures \cup {MissingKeyMessage} :
          (AnalysisRejected(c, m) \/ (MissingKeyRejected(c) /\ m = MissingKeyMessage)) =>
            /\ state.status = "ANALYZING"
            /\ state'.status = "ERROR"
            /\ state'.error # Null
            /\ Val(state'.error) # ""
            /\ m # "" => state'.error = Some(m)
            /\ requests' = requests
     /\ requests' # requests =>
          \E b \in BagToSet(readers) : handleImageSelected(b)]_vars

\* C7: without a credential no request is ever sent, the status never
\* becomes Success, and every submission is followed at once by the Error
\* status carrying the missing-key message.
C7_NoKeyNoRequest ==
  [][API_KEY = Null =>
       /\ requests' = 0
       /\ state'.status # "SUCCESS"
       /\ (\E b \in BagToSet(readers) : handleImageSelected(b)) =>
            (state'.status = "ANALYZING" /\ \E c \in BagToSet(calls') : ~c.sent)
       /\ (state.status = "ANALYZING" /\ state' # state) =>
            (state'.status = "ERROR" /\ state'.error = Some(MissingKeyMessage))]_vars

C7_Witness ==
  /\ API_KEY = Null
  /\ drops > 0
  /\ requests = 0
  /\ state.status = "ERROR"
  /\ state.error = Some(MissingKeyMessage)

\* C8: toggleLayerVisibility(id) changes exactly one layer, the one with
\* that id, only in its visibility flag, which it flips; the order of the
\* layers, the analysis, the status and the source image stay as they were.
C8_ToggleFlipsOne ==
  [][\A id \in ShownIds :
       handleToggleVisibility(id) =>
         LET old == Val(state.result).layers
             new == Val(state'.result).layers
             changed == {i \in 1..Len(old) : new[i] # old[i]}
         IN /\ state.status = "SUCCESS"
            /\ Len(new) = Len(old)
            /\ Cardinality(changed) = 1
            /\ \A i \in changed :
                 /\ old[i].id = id
                 /\ new[i].visible = ~old[i].visible
                 /\ new[i] = [old[i] EXCEPT !.visible = new[i].visible]
            /\ Val(state'.result).analysis = Val(state.result).analysis
            /\ state'.status = state.status
            /\ state'.imageSrc = state.imageSrc]_vars

C8_Witness ==
  /\ state.status = "SUCCESS"
  /\ state.result # Null
  /\ Len(Val(state.result).layers) = 2
  /\ ~Val(state.result).layers[1].visible
  /\ Val(state.result).layers[2].visible

CountBackground(layers) ==
  Cardinality({i \in 1..Len(layers) : layers[i].type = BACKGROUND})

\* C9: for a response without a background layer the result has exactly one
\* background layer, the synthetic one (box (0,0,1,1), order 0, confidence
\* 0.5, color #000000), and it is the first layer of the result.
C9_SyntheticBackgroundFirst ==
  (normOut # Null /\ ~hasBackground(Val(normIn).layers)) =>
     LET out == Val(normOut).layers
     IN /\ CountBackground(out) = 1
        /\ Cardinality({i \in 1..Len(out) : out[i].id = DefaultBgId}) = 1
        /\ out[1].id = DefaultBgId
        /\ out[1].type = BACKGROUND
        /\ out[1].box = [ymin |-> Frac(0, 1), xmin |-> Frac(0, 1),
                         ymax |-> Frac(1, 1), xmax |-> Frac(1, 1)]
        /\ out[1].zIndex = 0
        /\ out[1].confidence = 500
        /\ out[1].dominantColor = "#000000"

\* C9 as amended: for a response without a background layer the result has
\* exactly one background layer, the synthetic one (box (0,0,1,1), order 0,
\* confidence 0.5, color #000000); only layers of negative stacking order
\* come before it and every layer of stacking order 0 or more comes after
\* it, so it is first whenever no stacking order of the response is negative.
C9_SyntheticBackgroundPlaced ==
  (normOut # Null /\ ~hasBackground(Val(normIn).layers)) =>
     LET out == Val(normOut).layers
         at == {i \in 1..Len(out) : out[i].id = DefaultBgId}
     IN /\ CountBackground(out) = 1
        /\ Cardinality(at) = 1
        /\ Len(out) = Len(Val(normIn).layers) + 1
        /\ \A k \in at :
             /\ out[k] = DefaultBackground
             /\ out[k].box = [ymin |-> Frac(0, 1), xmin |-> Frac(0, 1),
                              ymax |-> Frac(1, 1), xmax |-> Frac(1, 1)]
             /\ out[k].zIndex = 0
             /\ out[k].confidence = 500
             /\ out[k].dominantColor = "#000000"
             /\ \A j \in 1..Len(out) : j < k => out[j].zIndex < 0
             /\ \A j \in 1..Len(out) : j > k => out[j].zIndex >= 0
             /\ (\A i \in 1..Len(Val(normIn).layers) :
                   Val(normIn).layers[i].zIndex >= 0) => k = 1

\* a response without background whose layers have orders 0 and above: the
\* synthetic layer is first, ahead of a response layer of the same order 0
C9_Witness ==
  /\ normOut # Null
  /\ ~hasBackground(Val(normIn).layers)
  /\ Len(Val(normIn).layers) = 2
  /\ Val(normIn).layers[1].zIndex = 2
  /\ Val(normIn).layers[2].zIndex = 0
  /\ Val(normOut).layers[1].id = DefaultBgId
  /\ Val(normOut).layers[2].zIndex = 0

IsSortedByZ(layers) ==
  \A i, j \in 1..Len(layers) : i < j => layers[i].zIndex <= layers[j].zIndex

\* C10: when an analysis resolves the controller is in Success and holds a
\* sequence ordered by stacking order in which every layer of the response
\* occurs exactly once, with as many layers as the response when it has a
\* background layer and one more (the synthetic one) otherwise.
C10_NoLayerLostOrDuplicated ==
  [][\A c \in BagToSet(calls), r \in Responses, t \in 0..MaxTime :
       AnalysisResolved(c, r, t) =>
         LET out == Val(state'.result).layers
             raw == r.layers
         IN /\ state'.status = "SUCCESS"
            /\ IsSortedByZ(out)
            /\ Len(out) = Len(raw) + (IF hasBackground(raw) THEN 0 ELSE 1)
            /\ \A i \in 1..Len(raw) :
                 Cardinality({j \in 1..Len(out) :
                                /\ out[j].id = LayerId(i - 1, t)
                                /\ out[j].type = raw[i].type
                                /\ out[j].zIndex = raw[i].zIndex}) = 1
            /\ Cardinality({j \in 1..Len(out) : out[j].id = DefaultBgId}) =
                 (IF hasBackground(raw) THEN 0 ELSE 1)]_vars

C10_Witness ==
  /\ state.status = "SUCCESS"
  /\ rawOf # Null
  /\ hasBackground(Val(rawOf).layers)
  /\ Len(Val(rawOf).layers) = 2
  /\ Len(Val(state.result).layers) = 2
  /\ Val(state.result).layers[1].type = BACKGROUND

\* position of a result layer in the sequence handed to the sort: the
\* synthetic background first, then the layers of the response in order
PreSortRank(l) == IF l.id = DefaultBgId THEN 0 ELSE l.id[2] + 1

\* C11: the normalized sequence is ascending by stacking order, and layers
\* of equal stacking order keep their order from before the sort (response
\* order, a synthetic background ahead of the response's layers).
C11_SortedAndStable ==
  normOut # Null =>
    LET out == Val(normOut).layers
    IN \A i, j \in 1..Len(out) :
         i < j =>
           /\ out[i].zIndex <= out[j].zIndex
           /\ out[i].zIndex = out[j].zIndex => PreSortRank(out[i]) < PreSortRank(out[j])

\* orders [1, 0, 0] without background: the synthetic layer and the two
\* response layers of order 0 tie, and the layer of order 1 moved last
C11_Witness ==
  /\ normOut # Null
  /\ Len(Val(normIn).layers) = 3
  /\ ~hasBackground(Val(normIn).layers)
  /\ Val(normIn).layers[1].zIndex = 1
  /\ Val(normIn).layers[2].zIndex = 0
  /\ Val(normIn).layers[3].zIndex = 0
  /\ Val(normOut).layers[1].id = DefaultBgId
  /\ PreSortRank(Val(normOut).layers[2]) = 2
  /\ PreSortRank(Val(normOut).layers[3]) = 3
  /\ PreSortRank(Val(normOut).layers[4]) = 1

\* the result layer made from the response layer at position i
OutLayerOf(out, i) ==
  out[CHOOSE j \in 1..Len(out) : out[j].id # DefaultBgId /\ out[j].id[2] = i - 1]

\* C12: a layer without confidence gets 0.9, a missing brightness
\* description becomes "Balanced", a missing contrast level "Medium", and a
\* missing weight-center coordinate 50, whatever the other coordinate is.
C12_DefaultsForMissing ==
  normOut # Null =>
    LET in == Val(normIn)
        out == Val(normOut)
    IN /\ \A i \in 1..Len(in.layers) :
            in.layers[i].confidence = Null =>
              OutLayerOf(out.layers, i).confidence = 900
       /\ in.analysis.brightnessMap = Null => out.analysis.brightnessMap = "Balanced"
       /\ in.analysis.contrastLevel = Null => out.analysis.contrastLevel = "Medium"
       /\ in.analysis.weightCenterX = Null => out.analysis.visualWeightCenter.x = 50
       /\ in.analysis.weightCenterY = Null => out.analysis.visualWeightCenter.y = 50

C12_Witness ==
  /\ normOut # Null
  /\ Len(Val(normIn).layers) = 1
  /\ Val(normIn).layers[1].confidence = Null
  /\ Val(normIn).analysis.brightnessMap = Null
  /\ Val(normIn).analysis.contrastLevel = Null
  /\ Val(normIn).analysis.weightCenterX = Some(40)
  /\ Val(normIn).analysis.weightCenterY = Null
  /\ Val(normOut).analysis.visualWeightCenter = [x |-> 40, y |-> 50]
  /\ OutLayerOf(Val(normOut).layers, 1).confidence = 900

\* C18: a confidence supplied by the response (0 included) is the layer's
\* confidence, and a weight-center coordinate supplied by the response
\* (0 included) is the coordinate of the analysis.
C18_SuppliedValuesKept ==
  normOut # Null =>
    LET in == Val(normIn)
        out == Val(normOut)
    IN /\ \A i \in 1..Len(in.layers) :
            in.layers[i].confidence # Null =>
              OutLayerOf(out.layers, i).confidence = Val(in.layers[i].confidence)
       /\ in.analysis.weightCenterX # Null =>
            out.analysis.visualWeightCenter.x = Val(in.analysis.weightCenterX)
       /\ in.analysis.weightCenterY # Null =>
            out.analysis.visualWeightCenter.y = Val(in.analysis.weightCenterY)

\* ids of the layers of the held result that have a thumbnail
WithThumbnail ==
  {id \in ShownIds : ThumbOf(thumbnails, id) # EmptyUrl}

\* C13: every thumbnail cached for a layer of the current result is a crop
\* of the current source image.
C13_ThumbnailsOfCurrentImage ==
  ListMounted(state, activeTab) =>
    \A id \in WithThumbnail : thumbnails[id][2] = Val(state.imageSrc)

\* C14: no file save is started with an empty image reference.
C14_NoEmptyDownload ==
  download # Null => Val(download).href # EmptyUrl

\* the step is a user action (a click or a file drop)
UserAction ==
  \/ \E f \in Files : processFile(f)
  \/ \E id \in ShownIds : handleToggleVisibility(id)
  \/ \E id \in ShownIds : setSelectedLayerId(Some(id))
  \/ setSelectedLayerId(Null)
  \/ \E tab \in {"layers", "analysis"} : setActiveTab(tab)
  \/ NewProject
  \/ TryAgain
  \/ \E id \in ShownIds : handleDownload(id)
  \/ handleDownloadCrop
  \/ handleExportJSON

\* C15: with crops succeeding, whenever the layer list is displayed every
\* layer of the result eventually has a thumbnail in the cache, unless the
\* list stops being displayed first.
C15_ThumbnailsEventually ==
  (canvas2d /\ ListMounted(state, activeTab))
    ~> (~ListMounted(state, activeTab) \/ WithThumbnail = ShownIds)

C15_Witness ==
  /\ canvas2d
  /\ ListMounted(state, activeTab)
  /\ Cardinality(ShownIds) = 2
  /\ WithThumbnail = ShownIds
  /\ imgLoading = {}

\* C16: while the status is Analyzing no user action changes the status,
\* the image or the result; a call that settles leaves the status Success
\* or Error; and the status Analyzing is always left eventually.
C16_AnalyzingUntilSettled ==
  /\ [][/\ (state.status = "ANALYZING" /\ UserAction) =>
              (/\ state'.status = state.status
               /\ state'.imageSrc = state.imageSrc
               /\ state'.result = state.result)
        /\ calls' # calls /\ BagCardinality(calls') < BagCardinality(calls) =>
              state'.status \in {"SUCCESS", "ERROR"}]_vars
  /\ (state.status = "ANALYZING") ~> (state.status \in {"SUCCESS", "ERROR"})

C16_Witness ==
  /\ state.status = "ERROR"
  /\ requests = 1
  /\ calls = EmptyBag
  /\ readers = EmptyBag

\* C17: Export JSON is offered in Success only, leaves status, source image,
\* result, error and selection as they were, and saves the document as
\* thumbnail_data.json.
C17_ExportKeepsState ==
  [][handleExportJSON =>
       /\ state.status = "SUCCESS"
       /\ state' = state
       /\ selectedLayerId' = selectedLayerId
       /\ originalImage' = originalImage
       /\ activeTab' = activeTab
       /\ thumbnails' = thumbnails
       /\ download' # Null
       /\ Val(download').filename = <<"thumbnail_data", ".json">>
       /\ Val(download').href = <<"data:text/json", Val(state.result)>>]_vars

C17_Witness ==
  /\ state.status = "SUCCESS"
  /\ download # Null
  /\ Val(download).filename = <<"thumbnail_data", ".json">>
  /\ selectedLayerId # Null

\* C19: when the controller enters Success with a new result, no layer of
\* that result is selected.
C19_NoSelectionCarriedOver ==
  [][(rawOf' # Null /\ BagCardinality(calls') < BagCardinality(calls)
        /\ state'.status = "SUCCESS") =>
       (selectedLayerId' = Null
          \/ Val(selectedLayerId') \notin LayerIds(Val(state'.result)))]_vars

\* C20: Success implies a result and a source image are held; Error implies
\* a non-empty message; Idle and Analyzing imply no message; Idle implies no
\* result.
C20_CoherentState ==
  /\ state.status = "SUCCESS" => (state.result # Null /\ state.imageSrc # Null)
  /\ state.status = "ERROR" => (state.error # Null /\ Val(state.error) # "")
  /\ state.status \in {"IDLE", "ANALYZING"} => state.error = Null
  /\ state.status = "IDLE" => state.result = Null

====
